---- MODULE Spec2Model ----
(***************************************************************************)
(* Client-side reconciliation logic of the group-outing chat application:  *)
(* poll votes (components/PollMessage.tsx), emoji reactions                *)
(* (components/MessageReactions.tsx), the notification feed                *)
(* (components/Notifications.tsx), the message list (GroupChat.tsx), the   *)
(* snapshot subscriptions of the components and group creation and        *)
(* membership (ChatInterface, GroupCreationModal, GroupManagementModal),   *)
(* over a keyed document store that is written by whole-value overwrite    *)
(* and read by one-shot reads and pushed snapshots.                        *)
(*                                                                         *)
(* Option indices are 1-based here (the code's index k is k+1), and the    *)
(* code's null selectedOption is NoOption.                                 *)
(***************************************************************************)
EXTENDS Integers, Sequences, FiniteSets, TLC

\* ------------------------------------------------------------ bounds
NumOptions == 2
MaxPollOps == 4
MaxReactOps == 4
MaxNotifs == 3
MaxTime == 2
MaxNotifOps == 2
MaxShownOptions == 3
MaxTotalVotes == 3
MaxChatOps == 2
MaxCalls == 2
MaxEffectRuns == 2
MaxGroups == 1
MaxGroupOps == 5

\* Two client sessions (browser tabs or devices).  Each is signed in as one
\* of two users; the second session is either the other user or a second
\* session of the same user.
Sessions == {"s1", "s2"}
Users == {"u1", "u2"}
\* the users/ table: the two above and one who has no session here
allUsers == Users \cup {"u3"}
\* two of the glyphs of EMOJI_OPTIONS
Emojis == {"thumbsUp", "heart"}

OptionIdx == 1 .. NumOptions
NoOption == 0

\* ------------------------------------------------------------ helpers
RECURSIVE filterOut(_, _)
\* list.filter(uid => uid !== u)
filterOut(list, u) ==
  IF list = <<>> THEN <<>>
  ELSE IF Head(list) = u THEN filterOut(Tail(list), u)
       ELSE <<Head(list)>> \o filterOut(Tail(list), u)

\* list.includes(u)
includes(list, u) == \E k \in 1 .. Len(list) : list[k] = u

VARIABLES
  currentUser,     \* per session: the signed-in user's uid (the currentUser prop)
  poll,            \* the stored poll document groupMessages/g/m/poll
  localPoll,       \* per session: useState localPoll
  hasVoted,        \* per session: useState hasVoted
  selectedOption,  \* per session: useState selectedOption
  pollPc,          \* per session: position inside handleVote/handleChangeVote
  pollOp,          \* per session: the handler's locals (the closure and updatedPoll)
  pollErr,         \* per session: the running/last handler reached its catch block
  pollOps,         \* number of option clicks handled so far (bounded by MaxPollOps)
  pollPending      \* per session: a write reached the store and its push has
                   \* not been delivered to this client yet

VARIABLES
  reactions,       \* the stored groupMessages/g/m/reactions: emoji -> list of uids
  reactionsProp,   \* per session: the reactions prop (last pushed message snapshot)
  reactPc,         \* per session: position inside handleReaction
  reactOp,         \* per session: handleReaction's locals
  reactOps,        \* number of reaction clicks handled so far (bounded by MaxReactOps)
  toggles          \* history: the current run of toggles by one user on one emoji

VARIABLES
  notificationsDb, \* the stored notifications/{uid}: uid -> (notification id -> record)
  notifications,   \* per session: useState notifications (the feed)
  lastSnapshot,    \* history, per session: the data of the last delivered snapshot
  notifOp,         \* history: the markAsRead / deleteNotification write that
                   \* landed last, if no other call or write followed it
                   \* (repeat: the same write had landed just before it)
  now,             \* Date.now() of the latest createNotification
  nextId,          \* the next fresh child key that push() hands out
  notifOps         \* number of markAsRead / deleteNotification calls so far (bounded)

VARIABLES
  view             \* one rendering of a PollMessage: the localPoll it renders,
                   \* the percentage shown per option, the winning index

VARIABLES
  messageCount,    \* number of messages stored under groupMessages/{group.id}
  newMessage,      \* per session: useState newMessage of GroupChat
  isPollModalOpen, \* per session: useState isPollModalOpen of GroupChat
  chatPc,          \* per session: position inside handleSendMessage/handleCreatePoll
  chatOp,          \* per session: which of the two handlers is running
  chatOps,         \* number of sends / poll creations started so far (bounded)
  toast            \* per session: the toast shown last (react-toastify)

VARIABLES
  mounted,         \* per subscribing component: it is mounted
  effectRuns,      \* per subscribing component: how often its subscription
                   \* effect has run (bounded by MaxEffectRuns)
  listeners,       \* the value listeners registered at the backend
  invoked          \* history: the listeners whose callback the last push invoked

VARIABLES
  groupsDb,          \* the stored groups: group id -> [admin, members]
  nextGroupId,       \* the next fresh child key push(groupsRef) hands out
  groups,            \* per session: useState groups of ChatInterface, by id
  selectedGroup,     \* per session: useState selectedGroup, the group prop of
                     \* GroupChat and GroupManagementModal (noGroup for null)
  userData,          \* per session: useState userData is loaded (not null)
  isCreateModalOpen, \* per session: useState isCreateModalOpen
  selectedMembers,   \* per session: useState selectedMembers of
                     \* GroupCreationModal, as uids
  groupPc,           \* per session: position inside handleCreateGroup,
                     \* handleAddMember, handleRemoveMember
  groupOp,           \* per session: the locals of the handler that is running
  groupOps           \* number of clicks in the group views so far (bounded)

userVars == <<currentUser>>
viewVars == <<view>>
chatVars ==
  <<messageCount, newMessage, isPollModalOpen, chatPc, chatOp, chatOps, toast>>
notifVars ==
  <<notificationsDb, notifications, lastSnapshot, notifOp, now, nextId,
    notifOps>>
reactVars == <<reactions, reactionsProp, reactPc, reactOp, reactOps, toggles>>
pollVars ==
  <<poll, localPoll, hasVoted, selectedOption, pollPc, pollOp, pollErr, pollOps,
    pollPending>>
subVars == <<mounted, effectRuns, listeners, invoked>>
groupVars ==
  <<groupsDb, nextGroupId, groups, selectedGroup, userData, isCreateModalOpen,
    selectedMembers, groupPc, groupOp, groupOps>>

vars ==
  <<userVars, pollVars, reactVars, notifVars, viewVars, chatVars, subVars,
    groupVars>>
notPollVars ==
  <<userVars, reactVars, notifVars, viewVars, chatVars, subVars, groupVars>>
notReactVars ==
  <<userVars, pollVars, notifVars, viewVars, chatVars, subVars, groupVars>>
notNotifVars ==
  <<userVars, pollVars, reactVars, viewVars, chatVars, subVars, groupVars>>
notViewVars ==
  <<userVars, pollVars, reactVars, notifVars, chatVars, subVars, groupVars>>
notChatVars ==
  <<userVars, pollVars, reactVars, notifVars, viewVars, subVars, groupVars>>
notSubVars ==
  <<userVars, pollVars, reactVars, notifVars, viewVars, chatVars, groupVars>>
\* what the group handlers leave alone: they write groups/, notifications/
\* and the toast
notGroupVars ==
  <<userVars, pollVars, reactVars, viewVars, subVars, messageCount, newMessage,
    isPollModalOpen, chatPc, chatOp, chatOps, notifications, lastSnapshot,
    notifOps>>

\* ------------------------------------------------------------ polls
\* handleCreatePoll: every option starts with no votes, totalVotes 0
newPoll == [options |-> [i \in OptionIdx |-> <<>>], totalVotes |-> 0]

\* votePoll with the index test lost: the uid is appended to every option
votePollEveryOption(p, optionIndex, uid) ==
  [options |-> [index \in OptionIdx |-> Append(p.options[index], uid)],
   totalVotes |-> p.totalVotes + 1]

\* updatedPoll of handleVote
votePoll(p, optionIndex, uid) ==
  [options |-> [index \in OptionIdx |->
                  IF index = optionIndex
                  THEN Append(p.options[index], uid)
                  ELSE p.options[index]],
   totalVotes |-> p.totalVotes + 1]

\* changeVotePoll that also counts the change as a new vote
changeVotePollCounted(p, selected, optionIndex, uid) ==
  [options |-> [index \in OptionIdx |->
                  IF index = selected
                  THEN filterOut(p.options[index], uid)
                  ELSE IF index = optionIndex
                       THEN Append(p.options[index], uid)
                       ELSE p.options[index]],
   totalVotes |-> p.totalVotes + 1]

\* changeVotePoll that leaves the vote on the previously selected option
changeVotePollKeepsOld(p, selected, optionIndex, uid) ==
  [options |-> [index \in OptionIdx |->
                  IF index = optionIndex /\ index # selected
                  THEN Append(p.options[index], uid)
                  ELSE p.options[index]],
   totalVotes |-> p.totalVotes]

\* updatedPoll of handleChangeVote; the first matching branch of the map wins
changeVotePoll(p, selected, optionIndex, uid) ==
  [options |-> [index \in OptionIdx |->
                  IF index = selected
                  THEN filterOut(p.options[index], uid)
                  ELSE IF index = optionIndex
                       THEN Append(p.options[index], uid)
                       ELSE p.options[index]],
   totalVotes |-> p.totalVotes]

\* poll.options.findIndex(option => option.votes.includes(uid)), 0 for -1
userVotedOption(p, uid) ==
  IF \E i \in OptionIdx : includes(p.options[i], uid)
  THEN CHOOSE i \in OptionIdx :
         /\ includes(p.options[i], uid)
         /\ \A j \in OptionIdx : includes(p.options[j], uid) => i <= j
  ELSE NoOption

noOp == [kind |-> "none", optionIndex |-> NoOption, selected |-> NoOption,
         base |-> newPoll, updatedPoll |-> newPoll]

InitUsers == currentUser \in {f \in [Sessions -> Users] : f["s1"] = "u1"}

InitPoll ==
  /\ poll = newPoll
  /\ localPoll = [s \in Sessions |-> newPoll]
  /\ hasVoted = [s \in Sessions |-> FALSE]
  /\ selectedOption = [s \in Sessions |-> NoOption]
  /\ pollPc = [s \in Sessions |-> "idle"]
  /\ pollOp = [s \in Sessions |-> noOp]
  /\ pollErr = [s \in Sessions |-> FALSE]
  /\ pollOps = 0
  /\ pollPending = [s \in Sessions |-> FALSE]

\* the handler's locals after handleVote returned at its guard
returnedOp == [noOp EXCEPT !.kind = "returned"]

\* handleVote without the hasVoted test of its guard
handleVoteUnguarded(s, optionIndex) ==
  /\ UNCHANGED notPollVars
  /\ pollPc[s] = "idle"
  /\ pollOps < MaxPollOps
  /\ pollOps' = pollOps + 1
  /\ pollErr' = [pollErr EXCEPT ![s] = FALSE]
  /\ pollOp' = [pollOp EXCEPT ![s] =
                  [kind |-> "vote", optionIndex |-> optionIndex,
                   selected |-> selectedOption[s], base |-> localPoll[s],
                   updatedPoll |-> votePoll(localPoll[s], optionIndex, currentUser[s])]]
  /\ pollPc' = [pollPc EXCEPT ![s] = "writing"]
  /\ UNCHANGED <<poll, localPoll, hasVoted, selectedOption, pollPending>>

\* handleVote up to its await: guard (return when hasVoted), updatedOptions,
\* updatedPoll
handleVote(s, optionIndex) ==
  /\ UNCHANGED notPollVars
  /\ pollPc[s] = "idle"
  /\ pollOps < MaxPollOps
  /\ pollOps' = pollOps + 1
  /\ pollErr' = [pollErr EXCEPT ![s] = FALSE]
  /\ IF hasVoted[s]
     THEN /\ pollOp' = [pollOp EXCEPT ![s] = returnedOp]
          /\ UNCHANGED pollPc
     ELSE /\ pollOp' = [pollOp EXCEPT ![s] =
                  [kind |-> "vote", optionIndex |-> optionIndex,
                   selected |-> selectedOption[s], base |-> localPoll[s],
                   updatedPoll |-> votePoll(localPoll[s], optionIndex, currentUser[s])]]
          /\ pollPc' = [pollPc EXCEPT ![s] = "writing"]
  /\ UNCHANGED <<poll, localPoll, hasVoted, selectedOption, pollPending>>

\* handleChangeVote up to its await; the option's onClick calls it when hasVoted
handleChangeVote(s, optionIndex) ==
  /\ UNCHANGED notPollVars
  /\ pollPc[s] = "idle"
  /\ hasVoted[s]
  /\ selectedOption[s] # NoOption
  /\ pollOp' = [pollOp EXCEPT ![s] =
                  [kind |-> "change", optionIndex |-> optionIndex,
                   selected |-> selectedOption[s], base |-> localPoll[s],
                   updatedPoll |-> changeVotePoll(localPoll[s], selectedOption[s],
                                                  optionIndex, currentUser[s])]]
  /\ pollPc' = [pollPc EXCEPT ![s] = "writing"]
  /\ pollErr' = [pollErr EXCEPT ![s] = FALSE]
  /\ pollOps < MaxPollOps
  /\ pollOps' = pollOps + 1
  /\ UNCHANGED <<poll, localPoll, hasVoted, selectedOption, pollPending>>

\* a write that applies the handler's delta to the poll stored at that moment
\* instead of replacing it by the poll computed from the local copy
pollWriteMerges(s) ==
  /\ UNCHANGED notPollVars
  /\ pollPc[s] = "writing"
  /\ poll' = IF pollOp[s].kind = "vote"
             THEN votePoll(poll, pollOp[s].optionIndex, currentUser[s])
             ELSE changeVotePoll(poll, pollOp[s].selected, pollOp[s].optionIndex,
                                 currentUser[s])
  /\ pollPc' = [pollPc EXCEPT ![s] = "written"]
  /\ UNCHANGED <<localPoll, hasVoted, selectedOption, pollOp, pollErr, pollOps>>
  /\ pollPending' = [t \in Sessions |-> TRUE]

\* set(pollRef, updatedPoll) reaches the store: the whole poll is replaced
pollWriteLands(s) ==
  /\ UNCHANGED notPollVars
  /\ pollPc[s] = "writing"
  /\ poll' = pollOp[s].updatedPoll
  /\ pollPc' = [pollPc EXCEPT ![s] = "written"]
  /\ UNCHANGED <<localPoll, hasVoted, selectedOption, pollOp, pollErr, pollOps>>
  /\ pollPending' = [t \in Sessions |-> TRUE]

\* a handler that has applied its local update before the write rejects
pollWriteFailsAfterUpdate(s) ==
  /\ UNCHANGED notPollVars
  /\ pollPc[s] = "writing"
  /\ localPoll' = [localPoll EXCEPT ![s] = pollOp[s].updatedPoll]
  /\ selectedOption' = [selectedOption EXCEPT ![s] = pollOp[s].optionIndex]
  /\ hasVoted' = [hasVoted EXCEPT ![s] = TRUE]
  /\ pollPc' = [pollPc EXCEPT ![s] = "idle"]
  /\ pollErr' = [pollErr EXCEPT ![s] = TRUE]
  /\ pollOp' = [pollOp EXCEPT ![s] = noOp]
  /\ UNCHANGED <<poll, pollOps, pollPending>>

\* set(pollRef, updatedPoll) rejects: the catch block logs to the console
pollWriteFails(s) ==
  /\ UNCHANGED notPollVars
  /\ pollPc[s] = "writing"
  /\ pollPc' = [pollPc EXCEPT ![s] = "idle"]
  /\ pollErr' = [pollErr EXCEPT ![s] = TRUE]
  /\ pollOp' = [pollOp EXCEPT ![s] = noOp]
  /\ UNCHANGED <<poll, localPoll, hasVoted, selectedOption, pollOps,
               pollPending>>

\* the statements after the await of handleVote / handleChangeVote
pollWriteDone(s) ==
  /\ UNCHANGED notPollVars
  /\ pollPc[s] = "written"
  /\ localPoll' = [localPoll EXCEPT ![s] = pollOp[s].updatedPoll]
  /\ selectedOption' = [selectedOption EXCEPT ![s] = pollOp[s].optionIndex]
  /\ hasVoted' = [hasVoted EXCEPT ![s] = IF pollOp[s].kind = "vote" THEN TRUE ELSE @]
  /\ pollPc' = [pollPc EXCEPT ![s] = "idle"]
  /\ pollOp' = [pollOp EXCEPT ![s] = noOp]
  /\ UNCHANGED <<poll, pollErr, pollOps, pollPending>>

\* a pushed snapshot changes the poll prop: the useEffect on [poll, currentUser]
pollSnapshot(s) ==
  /\ UNCHANGED notPollVars
  /\ localPoll' = [localPoll EXCEPT ![s] = poll]
  /\ LET v == userVotedOption(poll, currentUser[s]) IN
       IF v # NoOption
       THEN /\ selectedOption' = [selectedOption EXCEPT ![s] = v]
            /\ hasVoted' = [hasVoted EXCEPT ![s] = TRUE]
       ELSE UNCHANGED <<selectedOption, hasVoted>>
  /\ UNCHANGED <<poll, pollPc, pollOp, pollErr, pollOps>>
  /\ pollPending' = [pollPending EXCEPT ![s] = FALSE]

NextPoll ==
  \/ \E s \in Sessions, i \in OptionIdx : handleVote(s, i)
  \/ \E s \in Sessions, i \in OptionIdx : handleChangeVote(s, i)
  \/ \E s \in Sessions : pollWriteLands(s)
  \/ \E s \in Sessions : pollWriteFails(s)
  \/ \E s \in Sessions : pollWriteDone(s)
  \/ \E s \in Sessions : pollSnapshot(s)

\* ------------------------------------------------------------ reactions
\* a message is created with reactions: {}
noReactions == [e \in {} |-> <<>>]

\* snapshot.exists() ? snapshot.val() || [] : []  for the child `emoji`
storedList(map, emoji) == IF emoji \in DOMAIN map THEN map[emoji] ELSE <<>>

\* newReactions that never removes: the uid is appended whatever the list holds
newReactionsAppendOnly(currentReactions, uid) == Append(currentReactions, uid)

\* newReactions of handleReaction
newReactions(currentReactions, uid) ==
  IF includes(currentReactions, uid)
  THEN filterOut(currentReactions, uid)
  ELSE Append(currentReactions, uid)

\* the write without the length test: an empty list is stored under the emoji
setReactionKeepEmpty(map, emoji, list) ==
  [e \in DOMAIN map \cup {emoji} |-> IF e = emoji THEN list ELSE map[e]]

\* set(reactionsRef, null) when the list is empty, else set(reactionsRef, list)
setReaction(map, emoji, list) ==
  IF Len(list) = 0
  THEN [e \in DOMAIN map \ {emoji} |-> map[e]]
  ELSE [e \in DOMAIN map \cup {emoji} |-> IF e = emoji THEN list ELSE map[e]]

noReactOp == [emoji |-> "", currentReactions |-> <<>>, newReactions |-> <<>>]
noToggles == [uid |-> "", emoji |-> "", before |-> noReactions, done |-> 0]

InitReact ==
  /\ reactions = noReactions
  /\ reactionsProp = [s \in Sessions |-> noReactions]
  /\ reactPc = [s \in Sessions |-> "idle"]
  /\ reactOp = [s \in Sessions |-> noReactOp]
  /\ reactOps = 0
  /\ toggles = noToggles

\* the list the toggle starts from, taken from the props instead of the store
currentReactionsFromProps(s) == storedList(reactionsProp[s], reactOp[s].emoji)

\* the list the toggle starts from: await get(reactionsRef)
currentReactionsRead(s) == storedList(reactions, reactOp[s].emoji)

\* the click: handleReaction up to await get(reactionsRef)
handleReaction(s, emoji) ==
  /\ UNCHANGED notReactVars
  /\ reactPc[s] = "idle"
  /\ reactOps < MaxReactOps
  /\ reactOps' = reactOps + 1
  /\ reactPc' = [reactPc EXCEPT ![s] = "reading"]
  /\ reactOp' = [reactOp EXCEPT ![s] = [noReactOp EXCEPT !.emoji = emoji]]
  /\ toggles' =
       IF \E t \in Sessions : t # s /\ reactPc[t] # "idle"
       THEN noToggles
       ELSE IF /\ toggles.done = 1
               /\ toggles.uid = currentUser[s]
               /\ toggles.emoji = emoji
            THEN toggles
            ELSE [uid |-> currentUser[s], emoji |-> emoji,
                  before |-> reactions, done |-> 0]
  /\ UNCHANGED <<reactions, reactionsProp>>

\* get resolves: currentReactions and newReactions are computed
reactionRead(s) ==
  /\ UNCHANGED notReactVars
  /\ reactPc[s] = "reading"
  /\ LET cur == currentReactionsRead(s) IN
       reactOp' = [reactOp EXCEPT ![s] =
                     [emoji |-> reactOp[s].emoji, currentReactions |-> cur,
                      newReactions |-> newReactions(cur, currentUser[s])]]
  /\ reactPc' = [reactPc EXCEPT ![s] = "writing"]
  /\ UNCHANGED <<reactions, reactionsProp, reactOps, toggles>>

\* the value the write leaves in the store when it replaces the whole
\* reactions map by the session's props with the emoji's list updated
reactionsWrittenFromProps(s) ==
  setReaction(reactionsProp[s], reactOp[s].emoji, reactOp[s].newReactions)

\* the value the write leaves in the store when the toggle is recomputed from
\* the list stored at the moment of the write
reactionsWrittenFromStore(s) ==
  setReaction(reactions, reactOp[s].emoji,
              newReactions(storedList(reactions, reactOp[s].emoji), currentUser[s]))

\* the value the write leaves in the store: only the child `emoji` is set
reactionsWritten(s) ==
  setReaction(reactions, reactOp[s].emoji, reactOp[s].newReactions)

\* set(reactionsRef, ...) reaches the store
reactionWriteLands(s) ==
  /\ UNCHANGED notReactVars
  /\ reactPc[s] = "writing"
  /\ reactions' = reactionsWritten(s)
  /\ reactPc' = [reactPc EXCEPT ![s] = "written"]
  /\ toggles' = IF toggles.uid = currentUser[s] /\ toggles.emoji = reactOp[s].emoji
                THEN [toggles EXCEPT !.done = @ + 1]
                ELSE noToggles
  /\ UNCHANGED <<reactionsProp, reactOp, reactOps>>

\* get or set rejects: the catch block logs to the console
reactionFails(s) ==
  /\ UNCHANGED notReactVars
  /\ reactPc[s] \in {"reading", "writing"}
  /\ reactPc' = [reactPc EXCEPT ![s] = "idle"]
  /\ reactOp' = [reactOp EXCEPT ![s] = noReactOp]
  /\ toggles' = noToggles
  /\ UNCHANGED <<reactions, reactionsProp, reactOps>>

\* await set resolves and handleReaction returns
reactionDone(s) ==
  /\ UNCHANGED notReactVars
  /\ reactPc[s] = "written"
  /\ reactPc' = [reactPc EXCEPT ![s] = "idle"]
  /\ reactOp' = [reactOp EXCEPT ![s] = noReactOp]
  /\ UNCHANGED <<reactions, reactionsProp, reactOps, toggles>>

\* a pushed message snapshot replaces the reactions prop
reactionsSnapshot(s) ==
  /\ UNCHANGED notReactVars
  /\ reactionsProp' = [reactionsProp EXCEPT ![s] = reactions]
  /\ UNCHANGED <<reactions, reactPc, reactOp, reactOps, toggles>>

NextReact ==
  \/ \E s \in Sessions, e \in Emojis : handleReaction(s, e)
  \/ \E s \in Sessions : reactionRead(s)
  \/ \E s \in Sessions : reactionWriteLands(s)
  \/ \E s \in Sessions : reactionFails(s)
  \/ \E s \in Sessions : reactionDone(s)
  \/ \E s \in Sessions : reactionsSnapshot(s)

\* ------------------------------------------------------------ notifications
NotifIds == 1 .. MaxNotifs
\* a record field that is not stored (undefined when read)
Missing == 0

noNotifications == [k \in {} |-> Missing]

\* the record written by handleCreateGroup / handleAddMember
newNotification(groupId, ts) ==
  [type |-> "group_invitation", groupId |-> groupId, timestamp |-> ts,
   read |-> FALSE]

RECURSIVE keysAscending(_)
\* Object.keys(data): the child keys in key order
keysAscending(keys) ==
  IF keys = {} THEN <<>>
  ELSE LET k == CHOOSE x \in keys : \A y \in keys : x <= y
       IN <<k>> \o keysAscending(keys \ {k})

\* .map(key => ({ id: key, ...data[key] }))
entries(data) ==
  LET keys == keysAscending(DOMAIN data) IN
    [i \in 1 .. Len(keys) |->
       [id |-> keys[i], type |-> data[keys[i]].type,
        groupId |-> data[keys[i]].groupId,
        timestamp |-> data[keys[i]].timestamp, read |-> data[keys[i]].read]]

\* new Date(b.timestamp).getTime() - new Date(a.timestamp).getTime(); the
\* difference is NaN when a timestamp is missing, which sort takes as +0
compare(a, b) ==
  IF a.timestamp = Missing \/ b.timestamp = Missing THEN 0
  ELSE b.timestamp - a.timestamp

RECURSIVE insertSorted(_, _)
\* insertion from the end: x moves left past every element that compares
\* greater than it and stops at the first that does not
insertSorted(sorted, x) ==
  IF sorted = <<>> THEN <<x>>
  ELSE IF compare(sorted[Len(sorted)], x) > 0
       THEN insertSorted(SubSeq(sorted, 1, Len(sorted) - 1), x) \o <<sorted[Len(sorted)]>>
       ELSE sorted \o <<x>>

RECURSIVE insertionSort(_)
\* a stable insertion sort
insertionSort(list) ==
  IF list = <<>> THEN <<>>
  ELSE insertSorted(insertionSort(SubSeq(list, 1, Len(list) - 1)), list[Len(list)])

RECURSIVE merge(_, _)
\* stable merge: the left element goes first unless it compares greater
merge(left, right) ==
  IF left = <<>> THEN right
  ELSE IF right = <<>> THEN left
  ELSE IF compare(Head(left), Head(right)) > 0
       THEN <<Head(right)>> \o merge(left, Tail(right))
       ELSE <<Head(left)>> \o merge(Tail(left), right)

RECURSIVE runWidth(_, _)
\* the largest power of two below n, starting from w = 1
runWidth(n, w) == IF 2 * w >= n THEN w ELSE runWidth(n, 2 * w)

RECURSIVE mergeSort(_)
\* a stable bottom-up merge sort
mergeSort(list) ==
  IF Len(list) <= 1 THEN list
  ELSE LET w == runWidth(Len(list), 1) IN
         merge(mergeSort(SubSeq(list, 1, w)), mergeSort(SubSeq(list, w + 1, Len(list))))

\* the results .sort(comparator) can return.  With a consistent comparator
\* the result is the stable sorted order whatever the algorithm; with an
\* inconsistent one the order is implementation-defined: the results of the
\* two stable algorithms engines use
sortOutcomes(list) == {insertionSort(list), mergeSort(list)}

\* no markAsRead / deleteNotification write has landed since the last
\* createNotification or rejected write
noNotifOp == [kind |-> "none", uid |-> "u1", id |-> Missing, repeat |-> FALSE]

InitNotif ==
  /\ notificationsDb = [u \in allUsers |-> noNotifications]
  /\ notifications = [s \in Sessions |-> <<>>]
  /\ lastSnapshot = [s \in Sessions |-> noNotifications]
  /\ notifOp = noNotifOp
  /\ now = 1
  /\ nextId = 1
  /\ notifOps = 0

\* a push() that hands out the key of the push before it again
pushKeyReused == IF nextId > 1 THEN nextId - 1 ELSE nextId

\* push(ref(db, notifications/{uid})).key: a child key that no earlier push
\* returned

pushKey == nextId

\* another member's handleCreateGroup / handleAddMember: push() a fresh key
\* under notifications/{uid} and set the record there (for a user who has
\* a session here: nobody observes the notifications of the others);
\* timestamp: Date.now(), which does not run backwards; the feed only
\* compares timestamps, so the clock advances by at most one unit per record;
\* groupId: the feed hands it to onGroupSelect and reads nothing of it, the
\* records here are all of group 1
createNotification(uid, ts) ==
  /\ UNCHANGED notNotifVars
  /\ nextId <= MaxNotifs
  /\ \E s \in Sessions : currentUser[s] = uid
  /\ ts \in {now, now + 1}
  /\ now' = ts
  /\ notificationsDb' =
       [notificationsDb EXCEPT ![uid] =
          [k \in DOMAIN @ \cup {pushKey} |->
             IF k = pushKey THEN newNotification(1, ts) ELSE @[k]]]
  /\ nextId' = nextId + 1
  /\ notifOp' = noNotifOp
  /\ UNCHANGED <<notifications, lastSnapshot, notifOps>>

\* the onValue callback of the subscription on notifications/{currentUser.uid}
notificationsSnapshot(s) ==
  /\ UNCHANGED notNotifVars
  /\ LET data == notificationsDb[currentUser[s]] IN
       /\ lastSnapshot' = [lastSnapshot EXCEPT ![s] = data]
       /\ IF DOMAIN data # {}
          THEN \E userNotifications \in sortOutcomes(entries(data)) :
                 notifications' = [notifications EXCEPT ![s] = userNotifications]
          ELSE notifications' = [notifications EXCEPT ![s] = <<>>]
  /\ UNCHANGED <<notificationsDb, notifOp, now, nextId, notifOps>>

\* set(ref(database, notifications/{uid}/{notificationId}/read), true) on
\* the entries of one user: setting a child of a record that is not stored
\* creates the record
setReadKeepsValue(data, notificationId) == data

setRead(data, notificationId) ==
  [i \in DOMAIN data \cup {notificationId} |->
     IF i # notificationId THEN data[i]
     ELSE IF notificationId \in DOMAIN data
          THEN [data[i] EXCEPT !.read = TRUE]
          ELSE [type |-> "", groupId |-> Missing, timestamp |-> Missing,
                read |-> TRUE]]

\* set(ref(database, notifications/{uid}/{notificationId}), null) on the
\* entries of one user: the key is removed
setNullMarksDeleted(data, notificationId) ==
  [i \in DOMAIN data |->
     IF i = notificationId THEN [data[i] EXCEPT !.type = "deleted"] ELSE data[i]]

setNullWholePath(data, notificationId) == noNotifications

setNull(data, notificationId) ==
  [i \in DOMAIN data \ {notificationId} |-> data[i]]

\* markAsRead on an entry of the feed; when the write is rejected the catch
\* block logs to the console and nothing else happens
markAsRead(s, k) ==
  /\ UNCHANGED notNotifVars
  /\ k \in 1 .. Len(notifications[s])
  /\ notifOps < MaxNotifOps
  /\ notifOps' = notifOps + 1
  /\ LET notificationId == notifications[s][k].id
         uid == currentUser[s]
     IN \E ok \in BOOLEAN :
          /\ notifOp' = IF ok
                       THEN [kind |-> "markAsRead", uid |-> uid,
                             id |-> notificationId,
                             repeat |-> /\ notifOp.kind = "markAsRead"
                                        /\ notifOp.uid = uid
                                        /\ notifOp.id = notificationId]
                       ELSE noNotifOp
          /\ IF ok
             THEN notificationsDb' =
                    [notificationsDb EXCEPT ![uid] = setRead(@, notificationId)]
             ELSE UNCHANGED notificationsDb
  /\ UNCHANGED <<notifications, lastSnapshot, now, nextId>>

\* deleteNotification on an entry of the feed; the catch block as above
deleteNotification(s, k) ==
  /\ UNCHANGED notNotifVars
  /\ k \in 1 .. Len(notifications[s])
  /\ notifOps < MaxNotifOps
  /\ notifOps' = notifOps + 1
  /\ LET notificationId == notifications[s][k].id
         uid == currentUser[s]
     IN \E ok \in BOOLEAN :
          /\ notifOp' = IF ok
                       THEN [kind |-> "deleteNotification", uid |-> uid,
                             id |-> notificationId,
                             repeat |-> /\ notifOp.kind = "deleteNotification"
                                        /\ notifOp.uid = uid
                                        /\ notifOp.id = notificationId]
                       ELSE noNotifOp
          /\ IF ok
             THEN notificationsDb' =
                    [notificationsDb EXCEPT ![uid] = setNull(@, notificationId)]
             ELSE UNCHANGED notificationsDb
  /\ UNCHANGED <<notifications, lastSnapshot, now, nextId>>

\* notifications.filter(n => !n.read)
RECURSIVE filterUnread(_)
filterUnread(list) ==
  IF list = <<>> THEN <<>>
  ELSE IF ~ Head(list).read
       THEN <<Head(list)>> \o filterUnread(Tail(list))
       ELSE filterUnread(Tail(list))

\* the badge of the bell, computed on every render from the feed
unreadCountOfAll(s) == Len(notifications[s])

unreadCount(s) == Len(filterUnread(notifications[s]))

NextNotif ==
  \/ \E u \in Users, ts \in 1 .. MaxTime : createNotification(u, ts)
  \/ \E s \in Sessions : notificationsSnapshot(s)
  \/ \E s \in Sessions, k \in NotifIds : markAsRead(s, k)
  \/ \E s \in Sessions, k \in NotifIds : deleteNotification(s, k)

\* ------------------------------------------------------------ poll display
\* localPoll.totalVotes of a poll record that carries no such field
NoTotal == -1

\* Math.round of the quotient num / den of two naturals, den > 0: the
\* nearest integer, a half rounded up
round(num, den) == (2 * num + den) \div (2 * den)

\* getPercentage with Math.floor in the place of Math.round
getPercentageFloor(localP, votes) ==
  LET totalVotes == IF localP.totalVotes = NoTotal THEN 0 ELSE localP.totalVotes
  IN IF totalVotes = 0 THEN 0 ELSE (votes * 100) \div totalVotes

\* getPercentage(votes) of a component whose localPoll is localP
getPercentage(localP, votes) ==
  LET totalVotes == IF localP.totalVotes = NoTotal THEN 0 ELSE localP.totalVotes
  IN IF totalVotes = 0 THEN 0 ELSE round(votes * 100, totalVotes)

\* safeOptions.map(opt => opt.votes?.length || 0)
voteCounts(safeOptions) == [i \in DOMAIN safeOptions |-> Len(safeOptions[i])]

\* Math.max(...voteCounts)
max(counts) ==
  CHOOSE m \in {counts[i] : i \in DOMAIN counts} :
    \A i \in DOMAIN counts : counts[i] <= m

\* counts.indexOf(value), scanning from index from on (NoOption for -1)
RECURSIVE indexOfFrom(_, _, _)
indexOfFrom(counts, value, from) ==
  IF from > Len(counts) THEN NoOption
  ELSE IF counts[from] = value THEN from
       ELSE indexOfFrom(counts, value, from + 1)

indexOf(counts, value) == indexOfFrom(counts, value, 1)

\* counts.lastIndexOf(value)
RECURSIVE lastIndexOfFrom(_, _, _)
lastIndexOfFrom(counts, value, from) ==
  IF from < 1 THEN NoOption
  ELSE IF counts[from] = value THEN from
       ELSE lastIndexOfFrom(counts, value, from - 1)

\* getWinningOptionIndex returning the last index of the maximal count
getWinningOptionIndexLast(safeOptions) ==
  IF Len(safeOptions) = 0 THEN NoOption
  ELSE lastIndexOfFrom(voteCounts(safeOptions),
                       max(voteCounts(safeOptions)), Len(safeOptions))

\* getWinningOptionIndex() of a component whose safeOptions are given
getWinningOptionIndex(safeOptions) ==
  IF Len(safeOptions) = 0 THEN NoOption
  ELSE LET maxVotes == max(voteCounts(safeOptions))
       IN indexOf(voteCounts(safeOptions), maxVotes)

\* the votes lists a stored option can hold: users in the order they voted
VoteLists ==
  {list \in UNION {[1 .. n -> Users] : n \in 0 .. Cardinality(Users)} :
     \A i, j \in 1 .. Len(list) : i # j => list[i] # list[j]}

\* the polls a component is handed: up to MaxShownOptions options, each user
\* in at most one of them, and a totalVotes field that is a count up to
\* MaxTotalVotes or is not there
ShownPolls ==
  {p \in [options : UNION {[1 .. n -> VoteLists] : n \in 0 .. MaxShownOptions},
          totalVotes : {NoTotal} \cup 0 .. MaxTotalVotes] :
     \A i, j \in DOMAIN p.options :
       i # j => \A k \in 1 .. Len(p.options[i]) :
                  ~ includes(p.options[j], p.options[i][k])}

\* nothing rendered
noView ==
  [localPoll |-> newPoll, rendered |-> FALSE, percentage |-> <<>>,
   winningOptionIndex |-> NoOption]

InitView == view = noView

\* a component mounted with one of the polls as its localPoll
InitShown ==
  view \in {[noView EXCEPT !.localPoll = p] : p \in ShownPolls}

\* one rendering of the component: the percentage of every option and the
\* winning index
render ==
  /\ UNCHANGED notViewVars
  /\ ~ view.rendered
  /\ LET safeOptions == view.localPoll.options IN
       view' =
         [view EXCEPT
            !.rendered = TRUE,
            !.percentage =
              [i \in DOMAIN safeOptions |->
                 getPercentage(view.localPoll, Len(safeOptions[i]))],
            !.winningOptionIndex = getWinningOptionIndex(safeOptions)]

NextView == render

\* ------------------------------------------------------------ group chat
InitChat ==
  /\ messageCount = 0
  /\ newMessage = [s \in Sessions |-> ""]
  /\ isPollModalOpen = [s \in Sessions |-> FALSE]
  /\ chatPc = [s \in Sessions |-> "idle"]
  /\ chatOp = [s \in Sessions |-> "none"]
  /\ chatOps = 0
  /\ toast = [s \in Sessions |-> "none"]

\* onChange of the message input: the user types a text
typeMessage(s) ==
  /\ UNCHANGED notChatVars
  /\ newMessage[s] = ""
  /\ newMessage' = [newMessage EXCEPT ![s] = "hi"]
  /\ UNCHANGED <<messageCount, isPollModalOpen, chatPc, chatOp, chatOps, toast>>

\* the poll button: setIsPollModalOpen(true)
openPollModal(s) ==
  /\ UNCHANGED notChatVars
  /\ ~ isPollModalOpen[s]
  /\ isPollModalOpen' = [isPollModalOpen EXCEPT ![s] = TRUE]
  /\ UNCHANGED <<messageCount, newMessage, chatPc, chatOp, chatOps, toast>>

\* handleSendMessage up to its await (it returns when the text is empty)
handleSendMessage(s) ==
  /\ UNCHANGED notChatVars
  /\ chatPc[s] = "idle"
  /\ newMessage[s] # ""
  /\ chatOps < MaxChatOps
  /\ chatOps' = chatOps + 1
  /\ chatOp' = [chatOp EXCEPT ![s] = "message"]
  /\ chatPc' = [chatPc EXCEPT ![s] = "writing"]
  /\ UNCHANGED <<messageCount, newMessage, isPollModalOpen, toast>>

\* handleCreatePoll up to its await, called by the poll modal on submit
handleCreatePoll(s) ==
  /\ UNCHANGED notChatVars
  /\ chatPc[s] = "idle"
  /\ isPollModalOpen[s]
  /\ chatOps < MaxChatOps
  /\ chatOps' = chatOps + 1
  /\ chatOp' = [chatOp EXCEPT ![s] = "poll"]
  /\ chatPc' = [chatPc EXCEPT ![s] = "writing"]
  /\ UNCHANGED <<messageCount, newMessage, isPollModalOpen, toast>>

\* set(newMessageRef, messageData) reaches the store
chatWriteLands(s) ==
  /\ UNCHANGED notChatVars
  /\ chatPc[s] = "writing"
  /\ messageCount' = messageCount + 1
  /\ chatPc' = [chatPc EXCEPT ![s] = "written"]
  /\ UNCHANGED <<newMessage, isPollModalOpen, chatOp, chatOps, toast>>

\* set(newMessageRef, messageData) rejects: the catch block logs and shows
\* toast.error
chatWriteFails(s) ==
  /\ UNCHANGED notChatVars
  /\ chatPc[s] = "writing"
  /\ toast' = [toast EXCEPT ![s] = "error"]
  /\ chatPc' = [chatPc EXCEPT ![s] = "idle"]
  /\ chatOp' = [chatOp EXCEPT ![s] = "none"]
  /\ UNCHANGED <<messageCount, newMessage, isPollModalOpen, chatOps>>

\* the statements after the await: toast.success, then the input is cleared
\* (message) or the modal is closed (poll)
chatWriteDone(s) ==
  /\ UNCHANGED notChatVars
  /\ chatPc[s] = "written"
  /\ toast' = [toast EXCEPT ![s] = "success"]
  /\ IF chatOp[s] = "message"
     THEN /\ newMessage' = [newMessage EXCEPT ![s] = ""]
          /\ UNCHANGED isPollModalOpen
     ELSE /\ isPollModalOpen' = [isPollModalOpen EXCEPT ![s] = FALSE]
          /\ UNCHANGED newMessage
  /\ chatPc' = [chatPc EXCEPT ![s] = "idle"]
  /\ chatOp' = [chatOp EXCEPT ![s] = "none"]
  /\ UNCHANGED <<messageCount, chatOps>>

NextChat ==
  \/ \E s \in Sessions : typeMessage(s)
  \/ \E s \in Sessions : openPollModal(s)
  \/ \E s \in Sessions : handleSendMessage(s)
  \/ \E s \in Sessions : handleCreatePoll(s)
  \/ \E s \in Sessions : chatWriteLands(s)
  \/ \E s \in Sessions : chatWriteFails(s)
  \/ \E s \in Sessions : chatWriteDone(s)

\* ------------------------------------------------------------ subscriptions
\* the components that subscribe to a path in an effect: the notification
\* feed (notifications/{uid}), the message list of GroupChat
\* (groupMessages/{group.id}), the group list (groups) and the user-data
\* listener (users/{uid}) of ChatInterface
Subscribers == {"notifications", "messages", "groups", "userData"}

\* the callback passed to onValue by run number `run` of the effect of c
callbackOf(c, run) == <<"callback", c, run>>
\* the function onValue returned to that run
unsubscribeOf(c, run) == <<"unsubscribe", c, run>>

\* onValue(ref, callback): one more listener on the path
onValue(ls, path, callback) == ls \cup {[path |-> path, callback |-> callback]}

\* off(ref, 'value', callback): the listeners of the path registered with
\* this very callback are removed, the others stay
off(ls, path, callback) ==
  {l \in ls : ~ (l.path = path /\ l.callback = callback)}

\* the cleanup the effect of c returned on run number `run`: the three
\* effects that keep the result of onValue pass it to off; the user-data
\* effect returns no cleanup
cleanup(ls, c, run) ==
  IF c = "userData" THEN ls ELSE off(ls, c, unsubscribeOf(c, run))

InitSub ==
  /\ mounted = [c \in Subscribers |-> FALSE]
  /\ effectRuns = [c \in Subscribers |-> 0]
  /\ listeners = {}
  /\ invoked = {}

\* the component mounts and its effect runs for the first time
mount(c) ==
  /\ UNCHANGED notSubVars
  /\ ~ mounted[c]
  /\ effectRuns[c] < MaxEffectRuns
  /\ mounted' = [mounted EXCEPT ![c] = TRUE]
  /\ effectRuns' = [effectRuns EXCEPT ![c] = @ + 1]
  /\ listeners' = onValue(listeners, c, callbackOf(c, effectRuns[c] + 1))
  /\ UNCHANGED invoked

\* a dependency of the effect changed (currentUser, group.id,
\* refreshTrigger): the cleanup of the previous run, then the effect again
rerunEffect(c) ==
  /\ UNCHANGED notSubVars
  /\ mounted[c]
  /\ effectRuns[c] < MaxEffectRuns
  /\ effectRuns' = [effectRuns EXCEPT ![c] = @ + 1]
  /\ listeners' = onValue(cleanup(listeners, c, effectRuns[c]), c,
                          callbackOf(c, effectRuns[c] + 1))
  /\ UNCHANGED <<mounted, invoked>>

\* the component unmounts: the cleanup of the last run
unmount(c) ==
  /\ UNCHANGED notSubVars
  /\ mounted[c]
  /\ mounted' = [mounted EXCEPT ![c] = FALSE]
  /\ listeners' = cleanup(listeners, c, effectRuns[c])
  /\ UNCHANGED <<effectRuns, invoked>>

\* the backend pushes a snapshot of the path of c: the callback of every
\* listener registered on the path is invoked
pushValue(c) ==
  /\ UNCHANGED notSubVars
  /\ invoked' = {l \in listeners : l.path = c}
  /\ UNCHANGED <<mounted, effectRuns, listeners>>

NextSub ==
  \/ \E c \in Subscribers : mount(c)
  \/ \E c \in Subscribers : rerunEffect(c)
  \/ \E c \in Subscribers : unmount(c)
  \/ \E c \in Subscribers : pushValue(c)

\* ------------------------------------------------------------ groups
GroupIds == 1 .. MaxGroups
\* selectedGroup null
noGroup == [id |-> 0, admin |-> "", members |-> <<>>]
\* no group handler is running in the session
noGroupOp ==
  [kind |-> "none", group |-> noGroup, user |-> "", toNotify |-> <<>>,
   written |-> {}, stillExists |-> TRUE]

noGroups == [g \in {} |-> noGroup]

InitGroup ==
  /\ groupsDb = noGroups
  /\ nextGroupId = 1
  /\ groups = [s \in Sessions |-> noGroups]
  /\ selectedGroup = [s \in Sessions |-> noGroup]
  /\ userData = [s \in Sessions |-> FALSE]
  /\ isCreateModalOpen = [s \in Sessions |-> FALSE]
  /\ selectedMembers = [s \in Sessions |-> <<>>]
  /\ groupPc = [s \in Sessions |-> "idle"]
  /\ groupOp = [s \in Sessions |-> noGroupOp]
  /\ groupOps = 0

\* the onValue callback on users/{currentUser.uid} when the profile exists:
\* setUserData; the effect of GroupCreationModal on [currentUser, userData,
\* isOpen] then puts the admin alone into selectedMembers if the modal is open
userDataSnapshot(s) ==
  /\ UNCHANGED notGroupVars
  /\ userData' = [userData EXCEPT ![s] = TRUE]
  /\ selectedMembers' =
       IF isCreateModalOpen[s]
       THEN [selectedMembers EXCEPT ![s] = <<currentUser[s]>>]
       ELSE selectedMembers
  /\ UNCHANGED <<groupsDb, nextGroupId, groups, selectedGroup, isCreateModalOpen,
               groupPc, groupOp, groupOps>>
  /\ UNCHANGED <<notificationsDb, nextId, now, notifOp, toast>>

\* "+ Create New Group" in the groups view: setIsCreateModalOpen(true); the
\* effect of GroupCreationModal runs only when currentUser and userData are set
openCreateModal(s) ==
  /\ UNCHANGED notGroupVars
  /\ ~ isCreateModalOpen[s]
  /\ groupOps < MaxGroupOps
  /\ groupOps' = groupOps + 1
  /\ selectedGroup[s] = noGroup
  /\ isCreateModalOpen' = [isCreateModalOpen EXCEPT ![s] = TRUE]
  /\ selectedMembers' =
       IF userData[s]
       THEN [selectedMembers EXCEPT ![s] = <<currentUser[s]>>]
       ELSE selectedMembers
  /\ UNCHANGED <<groupsDb, nextGroupId, groups, selectedGroup, userData, groupPc,
               groupOp>>
  /\ UNCHANGED <<notificationsDb, nextId, now, notifOp, toast>>

\* handleAddMember of GroupCreationModal on a search result; allUsers there
\* excludes the current user
creationAddMember(s, user) ==
  /\ UNCHANGED notGroupVars
  /\ isCreateModalOpen[s]
  /\ user # currentUser[s]
  /\ groupOps < MaxGroupOps
  /\ groupOps' = groupOps + 1
  /\ IF ~ includes(selectedMembers[s], user)
     THEN /\ selectedMembers' = [selectedMembers EXCEPT ![s] = Append(@, user)]
          /\ toast' = [toast EXCEPT ![s] = "success"]
     ELSE /\ UNCHANGED selectedMembers
          /\ toast' = [toast EXCEPT ![s] = "info"]
  /\ UNCHANGED <<groupsDb, nextGroupId, groups, selectedGroup, userData,
               isCreateModalOpen, groupPc, groupOp>>
  /\ UNCHANGED <<notificationsDb, nextId, now, notifOp>>

\* handleRemoveMember of GroupCreationModal on a selected member
creationRemoveMember(s, userId) ==
  /\ UNCHANGED notGroupVars
  /\ isCreateModalOpen[s]
  /\ includes(selectedMembers[s], userId)
  /\ groupOps < MaxGroupOps
  /\ groupOps' = groupOps + 1
  /\ IF userId = currentUser[s]
     THEN UNCHANGED <<selectedMembers, toast>>
     ELSE /\ selectedMembers' = [selectedMembers EXCEPT ![s] = filterOut(@, userId)]
          /\ toast' = [toast EXCEPT ![s] = "info"]
  /\ UNCHANGED <<groupsDb, nextGroupId, groups, selectedGroup, userData,
               isCreateModalOpen, groupPc, groupOp>>
  /\ UNCHANGED <<notificationsDb, nextId, now, notifOp>>

\* handleSubmit of GroupCreationModal (name and description filled in) and
\* handleCreateGroup up to its first await: push(groupsRef), newGroup
handleCreateGroup(s) ==
  /\ UNCHANGED notGroupVars
  /\ isCreateModalOpen[s]
  /\ groupPc[s] = "idle"
  /\ groupOps < MaxGroupOps
  /\ nextGroupId <= MaxGroups
  /\ groupOps' = groupOps + 1
  /\ nextGroupId' = nextGroupId + 1
  /\ groupOp' = [groupOp EXCEPT ![s] =
                   [noGroupOp EXCEPT
                      !.kind = "create",
                      !.group = [id |-> nextGroupId, admin |-> currentUser[s],
                                 members |-> selectedMembers[s]]]]
  /\ groupPc' = [groupPc EXCEPT ![s] = "creating"]
  /\ UNCHANGED <<groupsDb, groups, selectedGroup, userData, isCreateModalOpen,
               selectedMembers>>
  /\ UNCHANGED <<notificationsDb, nextId, now, notifOp, toast>>

\* groupData.members.filter(memberId => memberId !== currentUser.uid) with
\* the test lost
membersToNotifyAll(members, uid) == members

\* groupData.members.filter(memberId => memberId !== currentUser.uid)
membersToNotify(members, uid) == filterOut(members, uid)

\* set(ref, value) on groups/{id}: the whole record is replaced
setGroup(data, group) ==
  [g \in DOMAIN data \cup {group.id} |->
     IF g = group.id THEN [admin |-> group.admin, members |-> group.members]
     ELSE data[g]]

\* the end of handleCreateGroup: toast.success, setIsCreateModalOpen(false)
\* (used when the last awaited write of the handler has landed)
createDone(s) ==
  /\ toast' = [toast EXCEPT ![s] = "success"]
  /\ isCreateModalOpen' = [isCreateModalOpen EXCEPT ![s] = FALSE]
  /\ groupPc' = [groupPc EXCEPT ![s] = "idle"]
  /\ groupOp' = [groupOp EXCEPT ![s] = noGroupOp]

\* handleGroupUpdate, called at the end of handleAddMember and
\* handleRemoveMember with the groups and selectedGroup of the render the
\* click happened in: the selection is dropped if the group is not listed
handleGroupUpdate(s) ==
  /\ selectedGroup' =
       IF groupOp[s].stillExists THEN selectedGroup
       ELSE [selectedGroup EXCEPT ![s] = noGroup]
  /\ toast' = [toast EXCEPT ![s] = "success"]
  /\ groupPc' = [groupPc EXCEPT ![s] = "idle"]
  /\ groupOp' = [groupOp EXCEPT ![s] = noGroupOp]

\* await set(newGroupRef, newGroup) resolves; the handler goes on to
\* membersToNotify and the first notification, or to its end
createGroupLands(s) ==
  /\ UNCHANGED notGroupVars
  /\ groupPc[s] = "creating"
  /\ groupsDb' = setGroup(groupsDb, groupOp[s].group)
  /\ LET toNotify == membersToNotify(groupOp[s].group.members, currentUser[s]) IN
       IF toNotify = <<>>
       THEN createDone(s)
       ELSE /\ groupOp' = [groupOp EXCEPT ![s].toNotify = toNotify]
            /\ groupPc' = [groupPc EXCEPT ![s] = "notifying"]
            /\ UNCHANGED <<toast, isCreateModalOpen>>
  /\ UNCHANGED <<nextGroupId, groups, selectedGroup, userData, selectedMembers,
               groupOps>>
  /\ UNCHANGED <<notificationsDb, nextId, now, notifOp>>

\* await set(notificationRef, {...}) of the loop of handleCreateGroup
\* resolves: the record is stored under a fresh key of notifications/{memberId}
\* with the clock value as timestamp (the clock advances in createNotification
\* only: nothing here reads a timestamp); the loop goes on to the next member
\* or the handler to its end
createNotificationLands(s) ==
  /\ UNCHANGED notGroupVars
  /\ groupPc[s] = "notifying"
  /\ nextId <= MaxNotifs
  /\ UNCHANGED now
  /\ LET memberId == Head(groupOp[s].toNotify) IN
       notificationsDb' =
         [notificationsDb EXCEPT ![memberId] =
            [k \in DOMAIN @ \cup {pushKey} |->
               IF k = pushKey THEN newNotification(groupOp[s].group.id, now)
               ELSE @[k]]]
  /\ nextId' = nextId + 1
  /\ notifOp' = noNotifOp
  /\ IF Tail(groupOp[s].toNotify) = <<>>
     THEN createDone(s)
     ELSE /\ groupOp' = [groupOp EXCEPT ![s].toNotify = Tail(@),
                                        ![s].written = @ \cup {pushKey}]
          /\ UNCHANGED <<toast, isCreateModalOpen, groupPc>>
  /\ UNCHANGED <<groupsDb, nextGroupId, groups, selectedGroup, userData,
               selectedMembers, groupOps>>

\* the onValue callback on groups: the groups the current user is a member
\* of.  An empty members array is not stored, and group.members.includes
\* then throws inside the callback before setGroups
groupsSnapshot(s) ==
  /\ UNCHANGED notGroupVars
  /\ IF \E g \in DOMAIN groupsDb : groupsDb[g].members = <<>>
     THEN UNCHANGED groups
     ELSE groups' =
            [groups EXCEPT ![s] =
               [g \in {h \in DOMAIN groupsDb :
                         includes(groupsDb[h].members, currentUser[s])} |->
                  [id |-> g, admin |-> groupsDb[g].admin,
                   members |-> groupsDb[g].members]]]
  /\ UNCHANGED <<groupsDb, nextGroupId, selectedGroup, userData,
               isCreateModalOpen, selectedMembers, groupPc, groupOp, groupOps>>
  /\ UNCHANGED <<notificationsDb, nextId, now, notifOp, toast>>

\* handleSelectGroup on a group of the list: setSelectedGroup(group)
handleSelectGroup(s, groupId) ==
  /\ UNCHANGED notGroupVars
  /\ selectedGroup[s] = noGroup
  /\ ~ isCreateModalOpen[s]
  /\ groupId \in DOMAIN groups[s]
  /\ groupOps < MaxGroupOps
  /\ groupOps' = groupOps + 1
  /\ selectedGroup' = [selectedGroup EXCEPT ![s] = groups[s][groupId]]
  /\ UNCHANGED <<groupsDb, nextGroupId, groups, userData, isCreateModalOpen,
               selectedMembers, groupPc, groupOp>>
  /\ UNCHANGED <<notificationsDb, nextId, now, notifOp, toast>>

\* handleBackToGroups: setSelectedGroup(null)
handleBackToGroups(s) ==
  /\ UNCHANGED notGroupVars
  /\ selectedGroup[s] # noGroup
  /\ groupOps < MaxGroupOps
  /\ groupOps' = groupOps + 1
  /\ groupPc[s] = "idle"
  /\ selectedGroup' = [selectedGroup EXCEPT ![s] = noGroup]
  /\ UNCHANGED <<groupsDb, nextGroupId, groups, userData, isCreateModalOpen,
               selectedMembers, groupPc, groupOp>>
  /\ UNCHANGED <<notificationsDb, nextId, now, notifOp, toast>>

\* updatedMembers of handleAddMember: [...group.members, user.uid]
updatedMembersAdd(group, user) == Append(group.members, user)

\* updatedMembers of handleRemoveMember
updatedMembersRemove(group, user) == filterOut(group.members, user)

\* handleAddMember of GroupManagementModal up to its first await, on a
\* search result (the search leaves out group.members); the controls are
\* rendered for the admin only
handleAddMember(s, user) ==
  /\ UNCHANGED notGroupVars
  /\ selectedGroup[s] # noGroup
  /\ selectedGroup[s].admin = currentUser[s]
  /\ ~ includes(selectedGroup[s].members, user)
  /\ groupPc[s] = "idle"
  /\ groupOps < MaxGroupOps
  /\ groupOps' = groupOps + 1
  /\ groupOp' = [groupOp EXCEPT ![s] =
                   [noGroupOp EXCEPT
                      !.kind = "add",
                      !.user = user,
                      !.group = [selectedGroup[s] EXCEPT
                                   !.members = updatedMembersAdd(selectedGroup[s], user)],
                      !.stillExists = selectedGroup[s].id \in DOMAIN groups[s]]]
  /\ groupPc' = [groupPc EXCEPT ![s] = "adding"]
  /\ UNCHANGED <<groupsDb, nextGroupId, groups, selectedGroup, userData,
               isCreateModalOpen, selectedMembers>>
  /\ UNCHANGED <<notificationsDb, nextId, now, notifOp, toast>>

\* await set(groupRef, {...group, members: updatedMembers}) of
\* handleAddMember resolves; the handler goes on to the notification
addMemberLands(s) ==
  /\ UNCHANGED notGroupVars
  /\ groupPc[s] = "adding"
  /\ groupsDb' = setGroup(groupsDb, groupOp[s].group)
  /\ groupPc' = [groupPc EXCEPT ![s] = "inviting"]
  /\ UNCHANGED <<nextGroupId, groups, selectedGroup, userData, isCreateModalOpen,
               selectedMembers, groupOp, groupOps>>
  /\ UNCHANGED <<notificationsDb, nextId, now, notifOp, toast>>

\* await set(newNotificationRef, {...}) of handleAddMember resolves:
\* toast.success, onGroupUpdate()
addNotificationLands(s) ==
  /\ UNCHANGED notGroupVars
  /\ groupPc[s] = "inviting"
  /\ nextId <= MaxNotifs
  /\ UNCHANGED now
  /\ notificationsDb' =
       [notificationsDb EXCEPT ![groupOp[s].user] =
          [k \in DOMAIN @ \cup {pushKey} |->
             IF k = pushKey THEN newNotification(groupOp[s].group.id, now)
             ELSE @[k]]]
  /\ nextId' = nextId + 1
  /\ notifOp' = noNotifOp
  /\ handleGroupUpdate(s)
  /\ UNCHANGED <<groupsDb, nextGroupId, groups, userData, isCreateModalOpen,
               selectedMembers, groupOps>>

\* handleRemoveMember of GroupManagementModal up to its await, on a member
\* of the list; removing the admin is refused with a toast
handleRemoveMember(s, user) ==
  /\ UNCHANGED notGroupVars
  /\ selectedGroup[s] # noGroup
  /\ selectedGroup[s].admin = currentUser[s]
  /\ includes(selectedGroup[s].members, user)
  /\ groupPc[s] = "idle"
  /\ groupOps < MaxGroupOps
  /\ groupOps' = groupOps + 1
  /\ IF user = selectedGroup[s].admin
     THEN /\ toast' = [toast EXCEPT ![s] = "error"]
          /\ UNCHANGED <<groupPc, groupOp>>
     ELSE /\ groupOp' = [groupOp EXCEPT ![s] =
                   [noGroupOp EXCEPT
                      !.kind = "remove",
                      !.user = user,
                      !.group = [selectedGroup[s] EXCEPT
                                   !.members = updatedMembersRemove(selectedGroup[s], user)],
                      !.stillExists = selectedGroup[s].id \in DOMAIN groups[s]]]
          /\ groupPc' = [groupPc EXCEPT ![s] = "removing"]
          /\ UNCHANGED toast
  /\ UNCHANGED <<groupsDb, nextGroupId, groups, selectedGroup, userData,
               isCreateModalOpen, selectedMembers>>
  /\ UNCHANGED <<notificationsDb, nextId, now, notifOp>>

\* await set(groupRef, {...group, members: updatedMembers}) of
\* handleRemoveMember resolves: toast.success, onGroupUpdate()
removeMemberLands(s) ==
  /\ UNCHANGED notGroupVars
  /\ groupPc[s] = "removing"
  /\ groupsDb' = setGroup(groupsDb, groupOp[s].group)
  /\ handleGroupUpdate(s)
  /\ UNCHANGED <<nextGroupId, groups, userData, isCreateModalOpen,
               selectedMembers, groupOps>>
  /\ UNCHANGED <<notificationsDb, nextId, now, notifOp>>

\* an awaited set of a group handler rejects: the catch block shows
\* toast.error and the handler ends
groupWriteFails(s) ==
  /\ UNCHANGED notGroupVars
  /\ groupPc[s] # "idle"
  /\ groupPc' = [groupPc EXCEPT ![s] = "idle"]
  /\ toast' = [toast EXCEPT ![s] = "error"]
  /\ groupOp' = [groupOp EXCEPT ![s] = noGroupOp]
  /\ UNCHANGED <<groupsDb, nextGroupId, groups, selectedGroup, userData,
               isCreateModalOpen, selectedMembers, groupOps>>
  /\ UNCHANGED <<notificationsDb, nextId, now, notifOp>>

NextGroup ==
  \/ \E s \in Sessions : userDataSnapshot(s)
  \/ \E s \in Sessions : openCreateModal(s)
  \/ \E s \in Sessions, user \in allUsers : creationAddMember(s, user)
  \/ \E s \in Sessions, user \in allUsers : creationRemoveMember(s, user)
  \/ \E s \in Sessions : handleCreateGroup(s)
  \/ \E s \in Sessions : createGroupLands(s)
  \/ \E s \in Sessions : createNotificationLands(s)
  \/ \E s \in Sessions : groupsSnapshot(s)
  \/ \E s \in Sessions, g \in GroupIds : handleSelectGroup(s, g)
  \/ \E s \in Sessions : handleBackToGroups(s)
  \/ \E s \in Sessions, user \in allUsers : handleAddMember(s, user)
  \/ \E s \in Sessions : addMemberLands(s)
  \/ \E s \in Sessions : addNotificationLands(s)
  \/ \E s \in Sessions, user \in allUsers : handleRemoveMember(s, user)
  \/ \E s \in Sessions : removeMemberLands(s)
  \/ \E s \in Sessions : groupWriteFails(s)

\* ------------------------------------------------------------ specifications
Init ==
  /\ InitUsers /\ InitPoll /\ InitReact /\ InitNotif /\ InitView /\ InitChat
  /\ InitSub /\ InitGroup

InitDisplay ==
  /\ InitUsers /\ InitPoll /\ InitReact /\ InitNotif /\ InitShown /\ InitChat
  /\ InitSub /\ InitGroup

\* The poll, the reactions, the notifications and the message list are
\* separate components over separate paths of the store, and no action of one
\* reads or writes a variable of another: each runs while the others are in
\* their initial state, over behaviours with at most MaxCalls handler calls.
Next ==
  \/ InitReact /\ InitNotif /\ InitChat /\ NextPoll /\ pollOps' <= MaxCalls
  \/ InitPoll /\ InitNotif /\ InitChat /\ NextReact /\ reactOps' <= MaxCalls
  \/ InitPoll /\ InitReact /\ InitChat /\ NextNotif /\ notifOps' <= MaxCalls
  \/ InitPoll /\ InitReact /\ InitNotif /\ NextChat /\ chatOps' <= MaxCalls


SpecPoll == Init /\ [][NextPoll]_vars
SpecReact == Init /\ [][NextReact]_vars
SpecNotif == Init /\ [][NextNotif]_vars
SpecDisplay == InitDisplay /\ [][NextView]_vars
SpecSub == Init /\ [][NextSub]_vars
SpecGroup == Init /\ [][NextGroup]_vars
Spec == Init /\ [][Next]_vars


\* ------------------------------------------------------------ poll claims
\* the users counted on option i of poll p
votedOn(p, uid) == {i \in OptionIdx : includes(p.options[i], uid)}

\* the step in which the write of session s reaches the store
pollLanding(s) == pollPc[s] = "writing" /\ pollPc'[s] = "written"

\* C1: when handleVote is applied to a poll in which the user appears in no
\* option's votes, the poll it writes has the user in the votes of the chosen
\* option and in the votes of no other option.
C1_VoteOnlyOnChosen ==
  [][\A s \in Sessions :
       (/\ pollLanding(s)
        /\ pollOp[s].kind = "vote"
        /\ votedOn(pollOp[s].base, currentUser[s]) = {})
       => votedOn(poll', currentUser[s]) = {pollOp[s].optionIndex}]_vars

C1_Witness ==
  \E s \in Sessions :
    /\ pollPc[s] = "written"
    /\ pollOp[s].kind = "vote"
    /\ votedOn(pollOp[s].base, currentUser[s]) = {}
    /\ poll = pollOp[s].updatedPoll
    /\ \E t \in Sessions : votedOn(poll, currentUser[t]) # {} /\ currentUser[t] # currentUser[s]

\* C2: the poll written by handleVote has the totalVotes of the poll it was
\* computed from plus 1; the poll written by handleChangeVote has the
\* totalVotes of the poll it was computed from.
C2_TotalVotes ==
  [][\A s \in Sessions :
       pollLanding(s) =>
         poll'.totalVotes = IF pollOp[s].kind = "vote"
                            THEN pollOp[s].base.totalVotes + 1
                            ELSE pollOp[s].base.totalVotes]_vars

C2_Witness ==
  \E s \in Sessions :
    /\ pollPc[s] = "written"
    /\ pollOp[s].kind = "change"
    /\ pollOp[s].base.totalVotes = 2
    /\ poll.totalVotes = 2

\* C3 (as claimed): after handleChangeVote from option `selected` to option
\* `optionIndex`, including selected = optionIndex, the written poll counts the
\* user on optionIndex and on no other option.
C3_ChangeVoteMoves ==
  [][\A s \in Sessions :
       (pollLanding(s) /\ pollOp[s].kind = "change")
       => votedOn(poll', currentUser[s]) = {pollOp[s].optionIndex}]_vars

\* C4: two sessions of different users compute a vote from the same poll; the
\* first write is in the store when the second lands.  The store then holds
\* the second writer's vote only, totalVotes is that of the common poll plus
\* 1, and neither handler reached its catch block.
C4_LostVote ==
  [][\A s, t \in Sessions :
       (/\ currentUser[s] # currentUser[t]
        /\ pollLanding(s)
        /\ pollOp[s].kind = "vote"
        /\ pollPc[t] = "written"
        /\ pollOp[t].kind = "vote"
        /\ pollOp[t].base = pollOp[s].base
        /\ poll = pollOp[t].updatedPoll)
       => /\ votedOn(poll', currentUser[s]) = {pollOp[s].optionIndex}
          /\ votedOn(poll', currentUser[t]) = {}
          /\ poll'.totalVotes = pollOp[s].base.totalVotes + 1
          /\ ~pollErr'[s]
          /\ ~pollErr'[t]]_vars

C4_Witness ==
  \E s, t \in Sessions :
    /\ currentUser[s] # currentUser[t]
    /\ pollPc[s] = "written" /\ pollPc[t] = "written"
    /\ pollOp[s].kind = "vote" /\ pollOp[t].kind = "vote"
    /\ pollOp[t].base = pollOp[s].base
    /\ poll = pollOp[s].updatedPoll
    /\ poll # pollOp[t].updatedPoll
    /\ votedOn(poll, currentUser[t]) = {}
    /\ ~pollErr[s] /\ ~pollErr[t]

\* ------------------------------------------------------------ reaction claims
\* two reaction maps hold the same reactions: the same emoji keys, and under
\* every key the same users, each as often
sameReactions(m1, m2) ==
  /\ DOMAIN m1 = DOMAIN m2
  /\ \A e \in DOMAIN m1 :
       \A u \in Users :
         Cardinality({k \in 1 .. Len(m1[e]) : m1[e][k] = u})
           = Cardinality({k \in 1 .. Len(m2[e]) : m2[e][k] = u})

\* the step in which the write of session s reaches the store
reactLanding(s) == reactPc[s] = "writing" /\ reactPc'[s] = "written"

\* C5 (as claimed): two toggles by one user on one emoji, the second started
\* after the first write completed and with no other toggle in between, leave
\* the stored reaction map equal to the map before the first toggle.
C5_DoubleToggleSameStore ==
  toggles.done = 2 => reactions = toggles.before

\* C5 (amended): after such a pair of toggles the stored reaction map has the
\* same emoji keys and, under every key, the same users as before the first
\* toggle; only the order of the users in the toggled emoji's list may
\* differ.
C5_DoubleToggleIdentity ==
  toggles.done = 2 => sameReactions(reactions, toggles.before)

C5_Witness ==
  /\ toggles.done = 2
  /\ toggles.emoji \in DOMAIN toggles.before
  /\ Len(toggles.before[toggles.emoji]) = 2
  /\ toggles.before[toggles.emoji][1] = toggles.uid
  /\ sameReactions(reactions, toggles.before)
  /\ reactions # toggles.before

\* C6: no emoji key of the stored reaction map holds an empty user list.
C6_NoEmptyList == \A e \in DOMAIN reactions : Len(reactions[e]) > 0

C6_Witness ==
  /\ toggles.done = 1
  /\ toggles.emoji \in DOMAIN toggles.before
  /\ toggles.emoji \notin DOMAIN reactions
  /\ \E e \in Emojis : e \in DOMAIN reactions

\* C7: the toggle decides from the list read from the store at its start: if
\* the user is in that list the written list is the list without the user,
\* otherwise the list with the user appended, whatever the reactions prop
\* of the session shows.
C7_DecidesFromStore ==
  [][\A s \in Sessions :
       /\ (reactPc[s] = "reading" /\ reactPc'[s] = "writing") =>
            LET cur == storedList(reactions, reactOp[s].emoji) IN
              /\ reactOp'[s].currentReactions = cur
              /\ reactOp'[s].newReactions =
                   IF includes(cur, currentUser[s])
                   THEN filterOut(cur, currentUser[s])
                   ELSE Append(cur, currentUser[s])
       /\ reactLanding(s) =>
            storedList(reactions', reactOp[s].emoji) = reactOp[s].newReactions]_vars

C7_Witness ==
  \E s \in Sessions :
    /\ reactPc[s] = "written"
    /\ includes(storedList(reactionsProp[s], reactOp[s].emoji), currentUser[s])
         # includes(reactOp[s].currentReactions, currentUser[s])
    /\ storedList(reactions, reactOp[s].emoji) = reactOp[s].newReactions

\* C8: two sessions of different users toggle the same emoji from the same
\* read list; the first write is in the store when the second lands.  The
\* stored list is then the second writer's list, and the first writer's user
\* is in it exactly if it was in the list both read: the first toggle is lost.
C8_LostToggle ==
  [][\A s, t \in Sessions :
       (/\ currentUser[s] # currentUser[t]
        /\ reactLanding(s)
        /\ reactPc[t] = "written"
        /\ reactOp[t].emoji = reactOp[s].emoji
        /\ reactOp[t].currentReactions = reactOp[s].currentReactions
        /\ storedList(reactions, reactOp[t].emoji) = reactOp[t].newReactions)
       => /\ storedList(reactions', reactOp[s].emoji) = reactOp[s].newReactions
          /\ includes(storedList(reactions', reactOp[s].emoji), currentUser[t])
               <=> includes(reactOp[s].currentReactions, currentUser[t])]_vars

C8_Witness ==
  \E s, t \in Sessions :
    /\ currentUser[s] # currentUser[t]
    /\ reactPc[s] = "written" /\ reactPc[t] = "written"
    /\ reactOp[t].emoji = reactOp[s].emoji
    /\ reactOp[t].currentReactions = reactOp[s].currentReactions
    /\ storedList(reactions, reactOp[s].emoji) = reactOp[s].newReactions
    /\ reactOp[t].newReactions # reactOp[s].newReactions
    /\ ~includes(storedList(reactions, reactOp[s].emoji), currentUser[t])
    /\ includes(reactOp[t].newReactions, currentUser[t])

\* C9: the write of a toggle on emoji e leaves the stored list (and the
\* presence of the key) of every other emoji unchanged; so a toggle on another
\* emoji whose write is in the store is still there afterwards.
C9_OtherEmojisUntouched ==
  [][\A s \in Sessions :
       reactLanding(s) =>
         /\ \A e2 \in Emojis \ {reactOp[s].emoji} :
              /\ storedList(reactions', e2) = storedList(reactions, e2)
              /\ (e2 \in DOMAIN reactions') <=> (e2 \in DOMAIN reactions)
         /\ \A t \in Sessions :
              (/\ reactPc[t] = "written"
               /\ reactOp[t].emoji # reactOp[s].emoji
               /\ storedList(reactions, reactOp[t].emoji) = reactOp[t].newReactions)
              => storedList(reactions', reactOp[t].emoji) = reactOp[t].newReactions]_vars

C9_Witness ==
  \E s, t \in Sessions :
    /\ reactPc[s] = "written" /\ reactPc[t] = "written"
    /\ reactOp[t].emoji # reactOp[s].emoji
    /\ reactOp[s].currentReactions = <<>> /\ reactOp[t].currentReactions = <<>>
    /\ reactionsProp[s] = noReactions /\ reactionsProp[t] = noReactions
    /\ storedList(reactions, reactOp[s].emoji) = reactOp[s].newReactions
    /\ storedList(reactions, reactOp[t].emoji) = reactOp[t].newReactions
    /\ DOMAIN reactions = Emojis

\* ------------------------------------------------------------ notification claims
\* C10 (as claimed): the feed of a session holds exactly one entry per key of
\* the last delivered snapshot, with that key as id and the snapshot's fields,
\* ordered by timestamp descending (among entries that carry a timestamp), and
\* is empty when the snapshot is absent.
C10_FeedMatchesSnapshot ==
  \A s \in Sessions :
    LET data == lastSnapshot[s]
        feed == notifications[s]
    IN /\ Len(feed) = Cardinality(DOMAIN data)
       /\ {feed[k].id : k \in 1 .. Len(feed)} = DOMAIN data
       /\ \A k \in 1 .. Len(feed) :
            /\ feed[k].timestamp = data[feed[k].id].timestamp
            /\ feed[k].read = data[feed[k].id].read
            /\ feed[k].type = data[feed[k].id].type
       /\ \A i, j \in 1 .. Len(feed) :
            (i < j /\ feed[i].timestamp # Missing /\ feed[j].timestamp # Missing)
            => feed[i].timestamp >= feed[j].timestamp

\* a markAsRead / deleteNotification call whose write lands in this step
notifLanding(kind) ==
  /\ notifOps' = notifOps + 1
  /\ notifOp'.kind = kind

\* the entries of every user but uid are the same before and after the step
othersUntouched(uid) ==
  \A u \in Users \ {uid} : notificationsDb'[u] = notificationsDb[u]

\* C11: in every state the unread count shown by a client is the number of
\* entries of its current feed whose read field is false.
C11_UnreadCount ==
  \A s \in Sessions :
    unreadCount(s) =
      Cardinality({k \in 1 .. Len(notifications[s]) :
                     notifications[s][k].read = FALSE})

C11_Witness ==
  \E s \in Sessions :
    /\ Len(notifications[s]) = 3
    /\ unreadCount(s) = 1

\* C12: a markAsRead whose write lands on a stored notification leaves that
\* entry with read = true and every other field and entry as it was, and
\* applying the write once more changes nothing; so a second markAsRead in
\* sequence leaves the store as the first one left it.
C12_MarkReadIdempotent ==
  [][(/\ notifLanding("markAsRead")
      /\ notifOp'.id \in DOMAIN notificationsDb[notifOp'.uid])
     => LET uid == notifOp'.uid
            id == notifOp'.id
            before == notificationsDb[uid]
            once == notificationsDb'[uid]
        IN /\ DOMAIN once = DOMAIN before
           /\ once[id] = [before[id] EXCEPT !.read = TRUE]
           /\ \A i \in DOMAIN before \ {id} : once[i] = before[i]
           /\ othersUntouched(uid)
           /\ setRead(once, id) = once
           /\ notifOp'.repeat => notificationsDb' = notificationsDb]_vars

C12_Witness ==
  /\ notifOp.kind = "markAsRead"
  /\ notifOp.repeat
  /\ notifOp.id \in DOMAIN notificationsDb[notifOp.uid]
  /\ notificationsDb[notifOp.uid][notifOp.id].read
  /\ notificationsDb[notifOp.uid][notifOp.id].timestamp # Missing

\* C13: a markAsRead on id a and a deleteNotification on another id b of the
\* same user commute: whichever write lands, it changes no entry but its own,
\* and the store after it followed by the other write equals the store after
\* the other write followed by it.
C13_MarkReadDeleteCommute ==
  [][(notifOps' = notifOps + 1 /\ notifOp'.kind # "none") =>
       LET uid == notifOp'.uid
           x == notifOp'.id
           before == notificationsDb[uid]
           after == notificationsDb'[uid]
       IN \A y \in NotifIds \ {x} :
            /\ (y \in DOMAIN after) <=> (y \in DOMAIN before)
            /\ y \in DOMAIN before => after[y] = before[y]
            /\ IF notifOp'.kind = "markAsRead"
               THEN setNull(after, y) = setRead(setNull(before, y), x)
               ELSE setRead(after, y) = setNull(setRead(before, y), x)]_vars

C13_Witness ==
  /\ notifOp.kind = "deleteNotification"
  /\ notifOp.id \notin DOMAIN notificationsDb[notifOp.uid]
  /\ \E a \in DOMAIN notificationsDb[notifOp.uid] :
       /\ a # notifOp.id
       /\ notificationsDb[notifOp.uid][a].read
       /\ notificationsDb[notifOp.uid][a].timestamp # Missing
  /\ \E c \in DOMAIN notificationsDb[notifOp.uid] :
       ~ notificationsDb[notifOp.uid][c].read

\* C14: a deleteNotification whose write lands removes the key of the entry
\* with all of its fields and leaves every other entry as it was; as long as
\* nothing else is written, a client whose snapshot is the store after the
\* delete does not list the id in its feed.
C14_DeleteRemoves ==
  /\ [][notifLanding("deleteNotification") =>
          LET uid == notifOp'.uid
              id == notifOp'.id
          IN /\ DOMAIN notificationsDb'[uid] = DOMAIN notificationsDb[uid] \ {id}
             /\ \A i \in DOMAIN notificationsDb'[uid] :
                  notificationsDb'[uid][i] = notificationsDb[uid][i]
             /\ othersUntouched(uid)]_vars
  /\ [](notifOp.kind = "deleteNotification" =>
          /\ notifOp.id \notin DOMAIN notificationsDb[notifOp.uid]
          /\ \A s \in Sessions :
               (/\ currentUser[s] = notifOp.uid
                /\ lastSnapshot[s] = notificationsDb[notifOp.uid])
               => \A k \in 1 .. Len(notifications[s]) :
                    notifications[s][k].id # notifOp.id)

C14_Witness ==
  /\ notifOp.kind = "deleteNotification"
  /\ ~ notifOp.repeat
  /\ notifOp.id \notin DOMAIN notificationsDb[notifOp.uid]
  /\ \E s \in Sessions :
       /\ currentUser[s] = notifOp.uid
       /\ lastSnapshot[s] = notificationsDb[notifOp.uid]
       /\ Len(notifications[s]) = 2

\* C23: a stored notification of user b changes or disappears only in a step
\* in which a markAsRead or deleteNotification write of b's own client
\* lands; every other step (the notifications other users' group creation
\* and member addition create, the operations of other users on their own
\* feed) leaves each stored record of b as it was.
C23_OnlyOwnerChangesRecords ==
  [][\A b \in Users :
       \A id \in DOMAIN notificationsDb[b] :
         (\/ id \notin DOMAIN notificationsDb'[b]
          \/ notificationsDb'[b][id] # notificationsDb[b][id])
         => /\ notifOps' = notifOps + 1
            /\ notifOp'.kind \in {"markAsRead", "deleteNotification"}
            /\ notifOp'.uid = b
            /\ notifOp'.id = id
            /\ \E s \in Sessions : currentUser[s] = b]_vars

\* two users hold records; the one of u1 was created after u2 had read
\* theirs, and u2's record is still the read one
C23_Witness ==
  /\ currentUser["s2"] = "u2"
  /\ \E id \in DOMAIN notificationsDb["u2"] : notificationsDb["u2"][id].read
  /\ \E id \in DOMAIN notificationsDb["u1"] :
       \A other \in DOMAIN notificationsDb["u2"] : other < id
  /\ notifOp = noNotifOp

\* C24 (as claimed): in the stored poll every user id is in the votes of at
\* most one option, and at most once in that option.
C24_OneVotePerUser ==
  \A u \in Users :
    Cardinality({<<i, k>> \in OptionIdx \X (1 .. MaxPollOps) :
                   k <= Len(poll.options[i]) /\ poll.options[i][k] = u}) <= 1

\* two sessions of one user: a vote and a change of vote to another option,
\* computed from different local polls, have both reached the store
C24_Witness ==
  /\ currentUser["s2"] = "u1"
  /\ pollPc["s1"] = "written" /\ pollPc["s2"] = "written"
  /\ pollOp["s1"].kind = "change" /\ pollOp["s2"].kind = "vote"
  /\ pollOp["s1"].optionIndex # pollOp["s1"].selected
  /\ pollOp["s1"].base # pollOp["s2"].base
  /\ \E i \in OptionIdx : includes(poll.options[i], "u1")

RECURSIVE sumOfVotes(_, _)
\* the sum of the sizes of the votes lists of options 1 .. n
sumOfVotes(p, n) ==
  IF n = 0 THEN 0 ELSE Len(p.options[n]) + sumOfVotes(p, n - 1)

\* C25 (as claimed): a vote or change of vote that was computed from the
\* poll stored when its write lands (no other writer in between), on a
\* stored poll whose totalVotes is the sum of the sizes of the votes lists,
\* leaves a stored poll whose totalVotes is that sum again; a fresh poll has
\* totalVotes 0 and empty lists.
C25_SequentialTotalIsSum ==
  [][\A s \in Sessions :
       (/\ pollPc[s] = "writing" /\ pollPc'[s] = "written"
        /\ pollOp[s].base = poll
        /\ poll.totalVotes = sumOfVotes(poll, NumOptions))
       => poll'.totalVotes = sumOfVotes(poll', NumOptions)]_vars

\* C30 (as claimed): an id enters the store only as the fresh key of a newly
\* created notification, so markAsRead adds no entry and a deleted id does
\* not come back; and every stored entry carries its type and timestamp.
C30_MarkReadNeverAddsEntry ==
  [][\A u \in Users :
       \A id \in DOMAIN notificationsDb'[u] :
         /\ \/ id \in DOMAIN notificationsDb[u]
            \/ id = nextId /\ nextId' = nextId + 1
         /\ notificationsDb'[u][id].type = "group_invitation"
         /\ notificationsDb'[u][id].timestamp # Missing]_vars

\* ------------------------------------------------------------ poll view claims
\* C19: a handleVote call in a client that records hasVoted never gets past
\* its guard (no vote is computed, nothing is written), and the call leaves
\* the store and localPoll, hasVoted, selectedOption as they were and reaches
\* no catch block.
C19_VoteWhenVotedIgnored ==
  [][/\ \A s \in Sessions :
          (hasVoted[s] /\ pollPc[s] = "idle") => pollOp'[s].kind # "vote"
     /\ (pollOps' = pollOps + 1 /\ pollPc' = pollPc) =>
          /\ UNCHANGED <<poll, localPoll, hasVoted, selectedOption>>
          /\ \E s \in Sessions :
               /\ hasVoted[s]
               /\ pollOp'[s] = returnedOp
               /\ ~ pollErr'[s]]_vars

C19_Witness ==
  \E s \in Sessions :
    /\ pollOp[s] = returnedOp
    /\ pollPc[s] = "idle"
    /\ hasVoted[s]
    /\ ~ pollErr[s]
    /\ localPoll[s] = poll
    /\ poll.totalVotes = 1
    /\ userVotedOption(poll, currentUser[s]) = selectedOption[s]

\* C20 (as claimed): a delivered snapshot makes the client's poll view a
\* function of the snapshot alone: localPoll is the snapshot, hasVoted says
\* whether the user is in some option's votes of the snapshot, and
\* selectedOption is that option (none when the user is in no option).
C20_ViewIsFunctionOfSnapshot ==
  [][\A s \in Sessions :
       (/\ pollPc' = pollPc
        /\ pollOps' = pollOps
        /\ <<localPoll[s], hasVoted[s], selectedOption[s]>>'
             # <<localPoll[s], hasVoted[s], selectedOption[s]>>)
       => /\ localPoll'[s] = poll
          /\ hasVoted'[s] <=> userVotedOption(poll, currentUser[s]) # NoOption
          /\ selectedOption'[s] = userVotedOption(poll, currentUser[s])]_vars

\* C21 (as claimed): once no handler is running and every push has been
\* delivered, the localPoll of every client is the stored poll; so the
\* completion of a client's own write has not put its older computed poll in
\* the place of a fresher snapshot.
C21_QuiescentClientsAgree ==
  (\A s \in Sessions : pollPc[s] = "idle" /\ ~ pollPending[s])
  => \A s \in Sessions : localPoll[s] = poll

\* ------------------------------------------------------------ display claims
\* C15: the winning index of a rendered poll is the lowest index among the
\* options whose vote count is maximal (so of two options with equal nonzero
\* maximal counts it is the lower one), and none when there is no option.
C15_WinningIsLowestMax ==
  view.rendered =>
    LET counts == voteCounts(view.localPoll.options)
        w == view.winningOptionIndex
    IN IF Len(counts) = 0 THEN w = NoOption
       ELSE /\ w \in DOMAIN counts
            /\ \A i \in DOMAIN counts : counts[i] <= counts[w]
            /\ \A i \in DOMAIN counts : i < w => counts[i] < counts[w]

C15_Witness ==
  /\ view.rendered
  /\ Len(view.localPoll.options) = 3
  /\ Len(view.localPoll.options[1]) = 0
  /\ Len(view.localPoll.options[2]) = 1
  /\ Len(view.localPoll.options[3]) = 1
  /\ view.winningOptionIndex = 2

\* C16: the percentage shown for an option with v votes is 0 when the poll's
\* totalVotes is 0 or missing, and otherwise an integer nearest to
\* 100 * v / totalVotes (at most one half away from it).
C16_Percentage ==
  view.rendered =>
    \A i \in DOMAIN view.localPoll.options :
      LET v == Len(view.localPoll.options[i])
          t == view.localPoll.totalVotes
          shown == view.percentage[i]
      IN IF t = 0 \/ t = NoTotal THEN shown = 0
         ELSE /\ 2 * (100 * v - shown * t) <= t
              /\ 2 * (shown * t - 100 * v) <= t

C16_Witness ==
  /\ view.rendered
  /\ view.localPoll.totalVotes = 3
  /\ \E i \in DOMAIN view.localPoll.options :
       /\ Len(view.localPoll.options[i]) = 2
       /\ view.percentage[i] = 67
  /\ \E i \in DOMAIN view.localPoll.options :
       /\ Len(view.localPoll.options[i]) = 0
       /\ view.percentage[i] = 0

\* C29 (as claimed): the percentage a client shows for an option of its poll
\* (shown once the client has voted) is between 0 and 100.
C29_PercentageInRange ==
  \A s \in Sessions :
    hasVoted[s] =>
      \A i \in OptionIdx :
        LET percentage == getPercentage(localPoll[s], Len(localPoll[s].options[i]))
        IN 0 <= percentage /\ percentage <= 100

\* ------------------------------------------------------------ failure claims
\* a handleVote / handleChangeVote of session s whose write is rejected
pollFailing(s) == pollPc[s] = "writing" /\ pollPc'[s] = "idle"

\* a handleReaction of session s whose get or set is rejected
reactFailing(s) == reactPc[s] \in {"reading", "writing"} /\ reactPc'[s] = "idle"

\* a markAsRead / deleteNotification call whose write is rejected
notifFailing == notifOps' = notifOps + 1 /\ notifOp'.kind = "none"

\* a handleSendMessage / handleCreatePoll of session s whose write is rejected
chatFailing(s) == chatPc[s] = "writing" /\ chatPc'[s] = "idle"

\* C17: when the write of a vote, a vote change, a reaction toggle, a
\* markAsRead or a deleteNotification is rejected, the handler ends (it is
\* idle again, nothing is in flight) and the step leaves the store and the
\* client's localPoll, hasVoted, selectedOption and feed as they were; the
\* handler had changed none of them before its write either.
C17_FailureLeavesState ==
  [][/\ \A s \in Sessions :
          (pollFailing(s) \/ (pollPc[s] = "idle" /\ pollPc'[s] = "writing")) =>
            UNCHANGED <<poll, localPoll, hasVoted, selectedOption>>
     /\ \A s \in Sessions : pollFailing(s) => pollOp'[s] = noOp
     /\ \A s \in Sessions :
          (reactFailing(s) \/ (reactPc[s] = "idle" /\ reactPc'[s] = "reading")) =>
            UNCHANGED <<reactions, reactionsProp>>
     /\ \A s \in Sessions : reactFailing(s) => reactOp'[s] = noReactOp
     /\ notifFailing => UNCHANGED <<notificationsDb, notifications>>]_vars

C17_Witness ==
  \E s \in Sessions :
    /\ pollErr[s]
    /\ pollPc[s] = "idle"
    /\ hasVoted[s]
    /\ localPoll[s] = poll
    /\ poll.totalVotes = 1
    /\ userVotedOption(poll, currentUser[s]) = selectedOption[s]

\* C18 (as claimed): every rejected backend call (vote, vote change,
\* reaction toggle, markAsRead, deleteNotification, message send, poll
\* creation) shows an error toast to the user of that client, and the call is
\* not started again: the handler is idle afterwards.
C18_FailureShowsToast ==
  [][/\ \A s \in Sessions :
          pollFailing(s) => toast'[s] = "error" /\ pollOp'[s] = noOp
     /\ \A s \in Sessions :
          reactFailing(s) => toast'[s] = "error" /\ reactOp'[s] = noReactOp
     /\ notifFailing => \E s \in Sessions : toast'[s] = "error"
     /\ \A s \in Sessions :
          chatFailing(s) => toast'[s] = "error" /\ chatOp'[s] = "none"]_vars

\* ------------------------------------------------------------ subscription claims
\* C22 (as claimed): a listener stays registered only while the component
\* that registered it is mounted and only for the latest run of its effect
\* (so at most one per component and path), and a push invokes only the
\* callbacks of such listeners.
C22_OnlyTheLatestListenerIsActive ==
  \A l \in listeners \cup invoked :
    /\ mounted[l.path]
    /\ l.callback = callbackOf(l.path, effectRuns[l.path])

\* ------------------------------------------------------------ group claims
\* C26: in the step in which handleCreateGroup reaches its end (the toast
\* "created successfully"), the group is stored, every member of it other
\* than the creator holds exactly one of the notifications this call wrote,
\* of type group_invitation, unread and with the id of the new group as
\* groupId, and the creator and the users outside the group hold none of them.
C26_CreateNotifiesEachMemberOnce ==
  [][\A s \in Sessions :
       (/\ groupPc[s] \in {"creating", "notifying"}
        /\ groupPc'[s] = "idle"
        /\ toast'[s] = "success")
       => LET group == groupOp[s].group
              written == groupOp[s].written
                           \cup (IF nextId' = nextId THEN {} ELSE {nextId})
          IN /\ group.id \in DOMAIN groupsDb'
             /\ \A m \in allUsers :
                  LET got == written \cap DOMAIN notificationsDb'[m] IN
                    IF includes(group.members, m) /\ m # currentUser[s]
                    THEN /\ Cardinality(got) = 1
                         /\ \A id \in got :
                              /\ notificationsDb'[m][id].type = "group_invitation"
                              /\ notificationsDb'[m][id].groupId = group.id
                              /\ ~ notificationsDb'[m][id].read
                    ELSE got = {}]_vars

\* u1 has opened the modal, picked u2 and u3 and submitted; the handler has
\* ended with the success toast and both hold their notification
C26_Witness ==
  /\ groupOps = 4
  /\ groupPc["s1"] = "idle"
  /\ toast["s1"] = "success"
  /\ ~ isCreateModalOpen["s1"]
  /\ \E g \in DOMAIN groupsDb :
       /\ groupsDb[g].admin = "u1"
       /\ Len(groupsDb[g].members) = 3
       /\ includes(groupsDb[g].members, "u1")
       /\ \A m \in {"u2", "u3"} :
            \E id \in DOMAIN notificationsDb[m] : notificationsDb[m][id].groupId = g
  /\ notificationsDb["u1"] = noNotifications

\* C27 (as claimed): when the write of handleAddMember or handleRemoveMember
\* lands and the admin has no other session (single client, no other
\* writer), every member the stored group had before is still a member,
\* except the one being removed, and a member being added is one.
C27_LaterAddKeepsEarlierMembers ==
  [][\A s \in Sessions :
       (/\ \/ groupPc[s] = "adding" /\ groupPc'[s] = "inviting"
           \/ groupPc[s] = "removing" /\ groupPc'[s] = "idle" /\ toast'[s] = "success"
        /\ \A t \in Sessions \ {s} : currentUser[t] # currentUser[s]
        /\ groupOp[s].group.id \in DOMAIN groupsDb)
       => LET g == groupOp[s].group.id IN
            /\ \A m \in allUsers :
                 (/\ includes(groupsDb[g].members, m)
                  /\ ~ (groupOp[s].kind = "remove" /\ m = groupOp[s].user))
                 => includes(groupsDb'[g].members, m)
            /\ groupOp[s].kind = "add"
               => includes(groupsDb'[g].members, groupOp[s].user)]_vars

\* C28 (as claimed): the admin of every stored group is one of its members.
C28_AdminIsMember ==
  \A g \in DOMAIN groupsDb : includes(groupsDb[g].members, groupsDb[g].admin)

====
